---- MODULE Spec2Model ----
(***************************************************************************)
(* Model of the midi-logger plugin: the three note formatters of           *)
(* src/formatters.ts (raw, scientific, key-aware ABC) and the capture      *)
(* life cycle of src/main.ts (enable / disable / onunload and the MIDI     *)
(* message handler).                                                       *)
(*                                                                         *)
(* Strings are sequences of one-character strings, so that trimming,       *)
(* concatenation and prefixes are computed and not assumed: "Bb" is        *)
(* <<"B","b">>, the ABC note "_D," is <<"_","D",",">>.                     *)
(***************************************************************************)
EXTENDS Integers, Sequences, FiniteSets, TLC

VARIABLES
    \* ---- one call of a formatter (src/formatters.ts) ----
    formatter,   \* which format() ran last: "none", "raw", "scientific", "abc"
    MIDInote,    \* its first argument
    separator,   \* its second argument
    key,         \* its third argument (ABC only)
    pc,          \* ABCFormatter.format: const pc
    octave,      \* ABCFormatter.format: const octave
    keyDefaults, \* ABCFormatter.format: const keyDefaults
    best,        \* ABCFormatter.format: let best, after the loop
    accPrefix,   \* ABCFormatter.format: const accPrefix
    noteBody,    \* ABCFormatter.format: const noteBody
    returned,    \* the string format() returned
    \* ---- the plugin object (src/main.ts) ----
    enabled,     \* MIDILogger.enabled
    midiAccess,  \* MIDILogger.midiAccess: "undefined" or "access"
    currentKey,  \* MIDILogger.currentKey
    exportType,  \* MIDILogger.settings.exportType
    sepSetting,  \* MIDILogger.settings.separator
    statusBar,   \* text of MIDILogger.mainStatusBar
    notices,     \* the Notice texts shown, in order (the last MaxNotices)
    enablePc,    \* each enable() call: "idle" (not running), or awaiting the
                 \* key "prompt" or the MIDI access "request"
    onmidimessage, \* per input port: is the handler of enable() assigned
    portOpen,    \* per input port: is the port open (delivering messages)
    accessResult, \* how the last requestMIDIAccess() promise settled:
                 \* "none", "granted" or "denied"
    unloaded     \* onunload has run

fmtVars == <<formatter, MIDInote, separator, key, pc, octave, keyDefaults,
             best, accPrefix, noteBody, returned>>
plugVars == <<enabled, midiAccess, currentKey, exportType, sepSetting, statusBar, notices,
              enablePc, onmidimessage, portOpen, accessResult, unloaded>>
vars == <<fmtVars, plugVars>>

----------------------------------------------------------------------------
(* Bounds of the model *)

\* pitch numbers -NegNotes .. MaxNote are formatted
NegNotes == 30
MaxNote == 127
\* enable() calls that may be in flight at once
MaxCalls == 2
\* MIDI input ports of the machine
NumPorts == 1
\* Notice texts kept
MaxNotices == 3

Notes == (0 - NegNotes) .. MaxNote
Calls == 1 .. MaxCalls
Ports == 1 .. NumPorts

----------------------------------------------------------------------------
(* JavaScript primitives used by the formatters *)

\* a % b of JavaScript for b > 0: the sign follows the dividend
JsRem(a, b) == IF a >= 0 THEN a % b ELSE 0 - ((0 - a) % b)

\* Math.floor(a / b) for b > 0
MathFloorDiv(a, b) == a \div b

Digit(d) == <<"0","1","2","3","4","5","6","7","8","9">>[d + 1]

RECURSIVE NatStr(_)
NatStr(n) == IF n < 10 THEN <<Digit(n)>> ELSE NatStr(n \div 10) \o <<Digit(n % 10)>>

\* `${n}` of an integer
NumStr(n) == IF n < 0 THEN <<"-">> \o NatStr(0 - n) ELSE NatStr(n)

WhiteSpace == {" ", "\t", "\n"}

RECURSIVE TrimStart(_)
TrimStart(s) ==
    IF s # <<>> /\ Head(s) \in WhiteSpace THEN TrimStart(Tail(s)) ELSE s

RECURSIVE TrimEnd(_)
TrimEnd(s) ==
    IF s # <<>> /\ s[Len(s)] \in WhiteSpace
    THEN TrimEnd(SubSeq(s, 1, Len(s) - 1)) ELSE s

\* String.prototype.trim
Trim(s) == TrimEnd(TrimStart(s))

\* String.prototype.toLowerCase on a letter name
toLowerCase(c) ==
    CASE c = "A" -> "a" [] c = "B" -> "b" [] c = "C" -> "c" [] c = "D" -> "d"
      [] c = "E" -> "e" [] c = "F" -> "f" [] c = "G" -> "g" [] OTHER -> c

\* property names every object literal inherits from Object.prototype; the
\* `in` operator is true of them too
InheritedProps == { <<"t","o","S","t","r","i","n","g">> }

----------------------------------------------------------------------------
(* src/formatters.ts: rawFormatter and scientificFormatter *)

\* rawFormatter.format
rawFormat(note, sep) == NumStr(note) \o sep

noteNames ==
    << <<"C">>, <<"C","#">>, <<"D">>, <<"D","#">>, <<"E">>, <<"F">>,
       <<"F","#">>, <<"G">>, <<"G","#">>, <<"A">>, <<"A","#">>, <<"B">> >>

\* `${array[i]}`: an index outside the array reads undefined
ElementStr(array, i) ==
    IF i + 1 \in DOMAIN array THEN array[i + 1]
    ELSE <<"u","n","d","e","f","i","n","e","d">>

\* scientificFormatter.format
scientificFormat(note, sep) ==
    LET noteName == ElementStr(noteNames, JsRem(note, 12))
        oct == MathFloorDiv(note, 12) - 1
    IN  noteName \o NumStr(oct) \o sep

----------------------------------------------------------------------------
(* src/formatters.ts: ABCFormatter *)

Letters == {"A", "B", "C", "D", "E", "F", "G"}
Accs == {"natural", "sharp", "flat"}

Sp(l, a) == [letter |-> l, acc |-> a]

\* variant: the remainder is not brought back into 0..11
PitchClassRaw(note) == JsRem(note, 12)

\* const pc = ((MIDInote % 12) + 12) % 12
PitchClass(note) == JsRem(JsRem(note, 12) + 12, 12)

\* const octave = Math.floor(MIDInote / 12) - 1
Octave(note) == MathFloorDiv(note, 12) - 1

candMap ==
    [p \in 0 .. 11 |->
        CASE p = 0  -> << Sp("C", "natural") >>
          [] p = 1  -> << Sp("C", "sharp"), Sp("D", "flat") >>
          [] p = 2  -> << Sp("D", "natural") >>
          [] p = 3  -> << Sp("D", "sharp"), Sp("E", "flat") >>
          [] p = 4  -> << Sp("E", "natural") >>
          [] p = 5  -> << Sp("F", "natural") >>
          [] p = 6  -> << Sp("F", "sharp"), Sp("G", "flat") >>
          [] p = 7  -> << Sp("G", "natural") >>
          [] p = 8  -> << Sp("G", "sharp"), Sp("A", "flat") >>
          [] p = 9  -> << Sp("A", "natural") >>
          [] p = 10 -> << Sp("A", "sharp"), Sp("B", "flat") >>
          [] OTHER  -> << Sp("B", "natural") >>]

\* const candidates = candMap[pc] ?? [{letter:'C', acc:'natural'}]
Candidates(p) ==
    IF p \in DOMAIN candMap THEN candMap[p] ELSE << Sp("C", "natural") >>

normalizeKey(x) == Trim(x)

FlatKeys ==
    { <<"F">>, <<"B","b">>, <<"E","b">>, <<"A","b">>, <<"D","b">>,
      <<"G","b">>, <<"C","b">> }

\* variant: key C gets no special case
preferFlatsInTieNoC(x) == x \in FlatKeys

\* variant: every key that is not a sharp key prefers flats
preferFlatsUnlessSharp(x) ==
    x \notin { <<"G">>, <<"D">>, <<"A">>, <<"E">>, <<"B">>, <<"F","#">>, <<"C","#">> }

preferFlatsInTie(x) ==
    IF x = <<"C">> THEN TRUE ELSE x \in FlatKeys

sharpsOrder == <<"F", "C", "G", "D", "A", "E", "B">>
flatsOrder == <<"B", "E", "A", "D", "G", "C", "F">>

keyToSharpsCount ==
    (<<"C">> :> 0) @@ (<<"G">> :> 1) @@ (<<"D">> :> 2) @@ (<<"A">> :> 3) @@
    (<<"E">> :> 4) @@ (<<"B">> :> 5) @@ (<<"F","#">> :> 6) @@ (<<"C","#">> :> 7)

keyToFlatsCount ==
    (<<"C">> :> 0) @@ (<<"F">> :> 1) @@ (<<"B","b">> :> 2) @@ (<<"E","b">> :> 3) @@
    (<<"A","b">> :> 4) @@ (<<"D","b">> :> 5) @@ (<<"G","b">> :> 6) @@ (<<"C","b">> :> 7)

\* x in table: own keys and the names inherited from Object.prototype
HasProperty(x, table) == x \in DOMAIN table \/ x \in InheritedProps

\* the bound of `for (let i = 0; i < n; i++)` with n = table[x]: an
\* inherited property is a function, and i < n is then false at once
LoopCount(x, table) == IF x \in DOMAIN table THEN table[x] ELSE 0

\* variant: the loop runs while i <= n
RECURSIVE ApplyOrderInclusive(_, _, _, _, _)
ApplyOrderInclusive(defaults, order, i, n, acc) ==
    IF i <= n /\ i + 1 \in DOMAIN order
    THEN ApplyOrderInclusive([defaults EXCEPT ![order[i + 1]] = acc],
                             order, i + 1, n, acc)
    ELSE defaults

\* for (let i = 0; i < n; i++) defaults[order[i]] = acc
RECURSIVE ApplyOrder(_, _, _, _, _)
ApplyOrder(defaults, order, i, n, acc) ==
    IF i < n
    THEN ApplyOrder([defaults EXCEPT ![order[i + 1]] = acc], order, i + 1, n, acc)
    ELSE defaults

keySignatureDefaults(x) ==
    LET defaults == [l \in Letters |-> "natural"]
    IN  IF HasProperty(x, keyToSharpsCount)
        THEN ApplyOrder(defaults, sharpsOrder, 0, LoopCount(x, keyToSharpsCount), "sharp")
        ELSE IF HasProperty(x, keyToFlatsCount)
        THEN ApplyOrder(defaults, flatsOrder, 0, LoopCount(x, keyToFlatsCount), "flat")
        ELSE defaults

\* variant: the key signature is not consulted
accidentalPrefixNoDefault(acc, defaultAcc) ==
    IF acc = "natural" THEN <<>>
    ELSE IF acc = "sharp" THEN <<"^">>
    ELSE <<"_">>

accidentalPrefix(acc, defaultAcc) ==
    IF acc = defaultAcc THEN <<>>
    ELSE IF acc = "sharp" THEN <<"^">>
    ELSE IF acc = "flat" THEN <<"_">>
    ELSE <<"=">>

\* for (let i = oct; i < 4; i++) out += ','
RECURSIVE CommaLoop(_, _)
CommaLoop(out, i) == IF i < 4 THEN CommaLoop(out \o <<",">>, i + 1) ELSE out

\* for (let i = oct; i > 5; i--) out += "'"
RECURSIVE ApostropheLoop(_, _)
ApostropheLoop(out, i) == IF i > 5 THEN ApostropheLoop(out \o <<"'">>, i - 1) ELSE out

\* variant: octave 4 falls into the lower-case branch
applyAbcOctaveStrict(letter, oct) ==
    IF oct < 4
    THEN CommaLoop(<<letter>>, oct)
    ELSE ApostropheLoop(<<toLowerCase(letter)>>, oct)

applyAbcOctave(letter, oct) ==
    IF oct <= 4
    THEN CommaLoop(<<letter>>, oct)
    ELSE ApostropheLoop(<<toLowerCase(letter)>>, oct)

\* variant: the cost comparison is turned around
RECURSIVE SelectLoopFlipped(_, _, _, _, _)
SelectLoopFlipped(candidates, i, st, defs, preferFlats) ==
    IF i > Len(candidates) THEN st
    ELSE
        LET cand == candidates[i]
            cost == IF cand.acc # defs[cand.letter] THEN 1 ELSE 0
            nxt ==
                IF cost > st.bestCost THEN [best |-> cand, bestCost |-> cost]
                ELSE IF cost = st.bestCost
                THEN IF preferFlats
                     THEN IF cand.acc = "flat" /\ st.best.acc # "flat"
                          THEN [st EXCEPT !.best = cand] ELSE st
                     ELSE IF cand.acc = "sharp" /\ st.best.acc # "sharp"
                          THEN [st EXCEPT !.best = cand] ELSE st
                ELSE st
        IN  SelectLoopFlipped(candidates, i + 1, nxt, defs, preferFlats)

\* one pass of `for (const cand of candidates)`, from candidate i on; st is
\* [best, bestCost]
RECURSIVE SelectLoop(_, _, _, _, _)
SelectLoop(candidates, i, st, defs, preferFlats) ==
    IF i > Len(candidates) THEN st
    ELSE
        LET cand == candidates[i]
            def == defs[cand.letter]
            needed == cand.acc # def
            cost == IF needed THEN 1 ELSE 0
            nxt ==
                IF cost < st.bestCost THEN [best |-> cand, bestCost |-> cost]
                ELSE IF cost = st.bestCost
                THEN IF preferFlats
                     THEN IF cand.acc = "flat" /\ st.best.acc # "flat"
                          THEN [st EXCEPT !.best = cand] ELSE st
                     ELSE IF cand.acc = "sharp" /\ st.best.acc # "sharp"
                          THEN [st EXCEPT !.best = cand] ELSE st
                ELSE st
        IN  SelectLoop(candidates, i + 1, nxt, defs, preferFlats)

\* let best = candidates[0]; let bestCost = 999; the loop; best
SelectBest(candidates, defs, preferFlats) ==
    SelectLoop(candidates, 1, [best |-> candidates[1], bestCost |-> 999],
               defs, preferFlats).best

\* ABCFormatter.format: every local of the call, and the string returned
ABCFormat(note, sep, ky) ==
    LET p == PitchClass(note)
        oct == Octave(note)
        k == normalizeKey(ky)
        defs == keySignatureDefaults(k)
        preferFlats == preferFlatsInTie(k)
        b == SelectBest(Candidates(p), defs, preferFlats)
        prefix == accidentalPrefix(b.acc, defs[b.letter])
        body == applyAbcOctave(b.letter, oct)
    IN  [pc |-> p, octave |-> oct, keyDefaults |-> defs, best |-> b,
         accPrefix |-> prefix, noteBody |-> body, returned |-> prefix \o body]

----------------------------------------------------------------------------
(* Values of the plugin *)

\* the keys the key prompt offers (KeySelectModal.onOpen)
SupportedKeys ==
    { <<"C">>, <<"G">>, <<"D">>, <<"A">>, <<"E">>, <<"B">>, <<"F","#">>,
      <<"C","#">>, <<"F">>, <<"B","b">>, <<"E","b">>, <<"A","b">>,
      <<"D","b">>, <<"G","b">>, <<"C","b">> }

ExportTypes == {"raw", "scientific", "abc"}

\* the locals of ABCFormatter.format while no ABC call has been made
NoAbc ==
    [pc |-> 0, octave |-> 0, keyDefaults |-> [l \in Letters |-> "natural"],
     best |-> Sp("C", "natural"), accPrefix |-> <<>>, noteBody |-> <<>>,
     returned |-> <<>>]

DEFAULT_SETTINGS == [exportType |-> "scientific", separator |-> <<",">>]

\* the plugin object after construction and onload() with no saved settings
InitPlugin ==
    /\ enabled = FALSE
    /\ midiAccess = "undefined"
    /\ currentKey = <<"C">>
    /\ exportType = DEFAULT_SETTINGS.exportType
    /\ sepSetting = DEFAULT_SETTINGS.separator
    /\ statusBar = ""
    /\ notices = <<>>
    /\ enablePc = [c \in Calls |-> "idle"]
    /\ onmidimessage = [p \in Ports |-> FALSE]
    /\ portOpen = [p \in Ports |-> FALSE]
    /\ accessResult = "none"
    /\ unloaded = FALSE

\* no formatter has been called
InitFmt ==
    /\ formatter = "none"
    /\ pc = NoAbc.pc
    /\ octave = NoAbc.octave
    /\ keyDefaults = NoAbc.keyDefaults
    /\ best = NoAbc.best
    /\ accPrefix = NoAbc.accPrefix
    /\ noteBody = NoAbc.noteBody
    /\ returned = NoAbc.returned

----------------------------------------------------------------------------
(* The formatters called directly, on any pitch number, key and separator *)

\* key strings passed to ABCFormatter.format: the supported names, padded
\* names, and names the tables do not hold
PaddedKeys ==
    { <<" ","C">>, <<"G"," ">>, <<" ","B","b"," ">>, <<"\t","F","#","\n">>,
      <<" ","C","b">>, <<" ","H"," ">> }
OtherKeys ==
    { <<>>, <<" ">>, <<"H">>, <<"c">>, <<"A","m">>, <<"f","#">>,
      <<"C"," ","#">>, <<"t","o","S","t","r","i","n","g">> }
KeyInputs == SupportedKeys \cup PaddedKeys \cup OtherKeys

Separators == { <<",">>, <<"-">> }

Init ==
    /\ MIDInote \in Notes
    /\ separator \in Separators
    /\ key \in KeyInputs
    /\ InitFmt
    /\ InitPlugin

\* the call's locals and result become the state
Return(fmt, r) ==
    /\ formatter' = fmt
    /\ pc' = r.pc
    /\ octave' = r.octave
    /\ keyDefaults' = r.keyDefaults
    /\ best' = r.best
    /\ accPrefix' = r.accPrefix
    /\ noteBody' = r.noteBody
    /\ returned' = r.returned

CallRaw ==
    /\ formatter = "none"
    /\ Return("raw", [NoAbc EXCEPT !.returned = rawFormat(MIDInote, separator)])
    /\ UNCHANGED <<MIDInote, separator, key, plugVars>>

CallScientific ==
    /\ formatter = "none"
    /\ Return("scientific",
              [NoAbc EXCEPT !.returned = scientificFormat(MIDInote, separator)])
    /\ UNCHANGED <<MIDInote, separator, key, plugVars>>

CallABC ==
    /\ formatter = "none"
    /\ Return("abc", ABCFormat(MIDInote, separator, key))
    /\ UNCHANGED <<MIDInote, separator, key, plugVars>>

Next == CallRaw \/ CallScientific \/ CallABC

Spec == Init /\ [][Next]_vars

----------------------------------------------------------------------------
(* Properties of the formatters, checked under Spec *)

BlackKeys == {1, 3, 6, 8, 10}
WhiteKeys == {0, 2, 4, 5, 7, 9, 11}

\* the two spellings of a black key, as the candidate table lists them
SharpCand(p) == candMap[p][1]
FlatCand(p) == candMap[p][2]

\* cost of a spelling under a key signature: 0 when the signature already
\* gives the letter that accidental, 1 when an accidental must be written
Cost(sp, defs) == IF sp.acc = defs[sp.letter] THEN 0 ELSE 1

\* n copies of character c
Repeat(c, n) == [i \in 1 .. n |-> c]

\* the leading accidental glyphs of an ABC note string
RECURSIVE GlyphPrefix(_)
GlyphPrefix(s) ==
    IF s # <<>> /\ Head(s) \in {"^", "_", "="}
    THEN <<Head(s)>> \o GlyphPrefix(Tail(s)) ELSE <<>>

\* C1: for every pitch class and every supported key, the spelling the
\* selection loop ends with is one of the candidates the table lists for the
\* pitch class, and no candidate of that pitch class costs strictly less.
C1_SelectionIsCheapestCandidate ==
    (formatter = "abc" /\ key \in SupportedKeys) =>
        /\ pc \in 0 .. 11
        /\ \E i \in DOMAIN candMap[pc] : candMap[pc][i] = best
        /\ \A i \in DOMAIN candMap[pc] :
              Cost(candMap[pc][i], keyDefaults) >= Cost(best, keyDefaults)

\* C1 witness: key F, pitch class 10: the second candidate Bb is free, the
\* first one A# is not, and Bb was selected.
C1_Witness ==
    /\ formatter = "abc"
    /\ key = <<"F">>
    /\ pc = 10
    /\ best = Sp("B", "flat")
    /\ Cost(SharpCand(10), keyDefaults) = 1
    /\ Cost(best, keyDefaults) = 0

\* C2: on a black key whose two candidates cost the same, the flat candidate
\* is selected when the (trimmed) key is C or a flat key, and the sharp
\* candidate for every sharp key and every other key string.
C2_TieBreakByKeyFamily ==
    (/\ formatter = "abc"
     /\ pc \in BlackKeys
     /\ Cost(SharpCand(pc), keyDefaults) = Cost(FlatCand(pc), keyDefaults)) =>
        best = IF Trim(key) \in { <<"C">>, <<"F">>, <<"B","b">>, <<"E","b">>,
                                  <<"A","b">>, <<"D","b">>, <<"G","b">>,
                                  <<"C","b">> }
               THEN FlatCand(pc) ELSE SharpCand(pc)

\* C2 witness: a tie under key C, broken to the flat spelling.
C2_Witness ==
    /\ formatter = "abc"
    /\ key = <<"C">>
    /\ pc = 1
    /\ Cost(SharpCand(1), keyDefaults) = Cost(FlatCand(1), keyDefaults)
    /\ best = Sp("D", "flat")

\* does the key, once trimmed, name none of the 15 supported keys
Unsupported(ky) == Trim(ky) \notin SupportedKeys

\* C3 as stated: with a key that is empty or unsupported after trimming,
\* format returns for every pitch number 0..127 what it returns with key "C".
C3_UnsupportedKeyFormatsAsC ==
    (formatter = "abc" /\ MIDInote \in 0 .. 127 /\ Unsupported(key)) =>
        returned = ABCFormat(MIDInote, separator, <<"C">>).returned

\* C3 amended: such a key gets the all-natural signature of C, and format
\* returns what it returns with key "C" on the white-key pitch classes; on a
\* black key it returns the sharp spelling, "^" and the lower letter, where
\* key "C" returns the flat one.
C3_UnsupportedKeyIsNeutralSharp ==
    (formatter = "abc" /\ Unsupported(key)) =>
        /\ keyDefaults = [l \in Letters |-> "natural"]
        /\ pc \in WhiteKeys =>
              returned = ABCFormat(MIDInote, separator, <<"C">>).returned
        /\ pc \in BlackKeys =>
              /\ best = SharpCand(pc)
              /\ GlyphPrefix(returned) = <<"^">>
              /\ GlyphPrefix(ABCFormat(MIDInote, separator, <<"C">>).returned)
                     = <<"_">>

\* C3 witness: the unsupported key "H" on a black key, spelled sharp.
C3_Witness ==
    /\ formatter = "abc"
    /\ key = <<"H">>
    /\ MIDInote = 61
    /\ returned = <<"^", "C">>

\* C4: for every supported key the defaults map all seven letters; a sharp key
\* of order N has exactly the first N letters of F C G D A E B sharp, a flat
\* key of order N exactly the first N letters of B E A D G C F flat, every
\* other letter natural, and no mapping holds both a sharp and a flat.
C4_KeySignatureDefaults ==
    (formatter = "abc" /\ key \in SupportedKeys) =>
        LET sharpKeys == << <<"G">>, <<"D">>, <<"A">>, <<"E">>, <<"B">>,
                            <<"F","#">>, <<"C","#">> >>
            flatKeys == << <<"F">>, <<"B","b">>, <<"E","b">>, <<"A","b">>,
                           <<"D","b">>, <<"G","b">>, <<"C","b">> >>
            sharps == <<"F", "C", "G", "D", "A", "E", "B">>
            flats == <<"B", "E", "A", "D", "G", "C", "F">>
            FirstN(order, n) == { order[i] : i \in 1 .. n }
        IN  /\ DOMAIN keyDefaults = Letters
            /\ \A l \in Letters : keyDefaults[l] \in Accs
            /\ \A n \in 1 .. 7 : key = sharpKeys[n] =>
                  \A l \in Letters :
                     keyDefaults[l] =
                        IF l \in FirstN(sharps, n) THEN "sharp" ELSE "natural"
            /\ \A n \in 1 .. 7 : key = flatKeys[n] =>
                  \A l \in Letters :
                     keyDefaults[l] =
                        IF l \in FirstN(flats, n) THEN "flat" ELSE "natural"
            /\ key = <<"C">> => \A l \in Letters : keyDefaults[l] = "natural"
            /\ ~ (/\ \E l \in Letters : keyDefaults[l] = "sharp"
                  /\ \E l \in Letters : keyDefaults[l] = "flat")

\* C4 witness: key Gb, order 6: every letter but F is flat.
C4_Witness ==
    /\ formatter = "abc"
    /\ key = <<"G","b">>
    /\ keyDefaults["C"] = "flat"
    /\ keyDefaults["F"] = "natural"

\* C5: for every supported key and pitch number, the returned string has no
\* accidental glyph exactly when the selected accidental is the key's default
\* for the selected letter; otherwise the glyph is "^" for sharp, "_" for
\* flat and "=" for natural.
C5_AccidentalGlyph ==
    (formatter = "abc" /\ key \in SupportedKeys) =>
        LET g == GlyphPrefix(returned)
        IN  /\ (g = <<>>) <=> (best.acc = keyDefaults[best.letter])
            /\ g # <<>> =>
                  g = CASE best.acc = "sharp" -> <<"^">>
                        [] best.acc = "flat" -> <<"_">>
                        [] OTHER -> <<"=">>

\* C5 witness: key G, an F natural cancels the signature sharp.
C5_Witness ==
    /\ formatter = "abc"
    /\ key = <<"G">>
    /\ MIDInote = 65
    /\ returned = <<"=", "F">>

\* C6: the note body is the upper-case letter followed by 4 - octave commas
\* when octave <= 4, and the lower-case letter followed by octave - 5
\* apostrophes when octave > 4.
C6_OctaveMarks ==
    formatter = "abc" =>
        LET lower == [l \in Letters |->
                        CASE l = "A" -> "a" [] l = "B" -> "b" [] l = "C" -> "c"
                          [] l = "D" -> "d" [] l = "E" -> "e" [] l = "F" -> "f"
                          [] OTHER -> "g"]
        IN  noteBody =
               IF octave <= 4
               THEN <<best.letter>> \o Repeat(",", 4 - octave)
               ELSE <<lower[best.letter]>> \o Repeat("'", octave - 5)

\* C6 witness: octave 5 gives the bare lower-case letter.
C6_Witness ==
    /\ formatter = "abc"
    /\ octave = 5
    /\ best.letter = "C"
    /\ noteBody = <<"c">>

\* C7: for every pitch number, negative ones included, the pitch class is in
\* 0..11, and the pitch number twelve higher has the same pitch class and the
\* octave one higher.
C7_Decomposition ==
    formatter = "abc" =>
        /\ pc \in 0 .. 11
        /\ PitchClass(MIDInote + 12) = pc
        /\ Octave(MIDInote + 12) = octave + 1

\* C7 witness: pitch number -1 decomposes to pitch class 11, octave -2.
C7_Witness ==
    /\ formatter = "abc"
    /\ MIDInote = 0 - 1
    /\ pc = 11
    /\ octave = 0 - 2

\* C8 as stated: for every pitch number n the scientific formatter returns the
\* name at index ((n mod 12) + 12) mod 12 of the name table, then
\* floor(n / 12) - 1, then the separator.
C8_ScientificUsesNormalisedPitchClass ==
    formatter = "scientific" =>
        returned = noteNames[(MIDInote % 12) + 1]
                      \o NumStr((MIDInote \div 12) - 1) \o separator

----------------------------------------------------------------------------
(* src/main.ts: the capture life cycle *)

\* new Notice(text): the window keeps the last MaxNotices texts
Notice(log, text) ==
    LET all == Append(log, text)
    IN  IF Len(all) > MaxNotices THEN Tail(all) ELSE all

CaptureKeyNotice(k) == <<"Capture Key: ", k>>
ActivatedNotice == <<"Key-aware MIDI Logger Activated">>
CannotOpenNotice == <<"Cannot open MIDI input port!">>
InactiveNotice == <<"Key-aware MIDI Logger is inactive">>

\* the keys chosen in the prompt: the neutral key, a sharp key and a flat key
\* of the 15 the dropdown offers
PromptKeys == { <<"C">>, <<"D">>, <<"B","b">> }

\* the MIDI messages delivered: note-on and note-off on channel 0, note-on on
\* channel 1; one black-key pitch; velocity 0 and a positive velocity
StatusBytes == {144, 128, 145}
DataBytes1 == {61}
DataBytes2 == {0, 100}

\* enable() up to `await this.promptKey()`: the key prompt opens
EnableCalled(c) ==
    /\ enablePc[c] = "idle"
    /\ enablePc' = [enablePc EXCEPT ![c] = "prompt"]
    /\ UNCHANGED <<enabled, midiAccess, currentKey, exportType, sepSetting,
                   statusBar, notices, onmidimessage, portOpen,
                   accessResult, unloaded, fmtVars>>

\* disable(), on the fields it writes
Disable ==
    /\ portOpen' = IF midiAccess # "undefined"
                   THEN [p \in Ports |-> FALSE] ELSE portOpen
    /\ notices' = Notice(notices, InactiveNotice)
    /\ statusBar' = ""
    /\ enabled' = FALSE
    /\ UNCHANGED <<midiAccess, currentKey, exportType, sepSetting, enablePc,
                   onmidimessage, accessResult, fmtVars>>

\* the ribbon icon's callback
RibbonClick ==
    /\ ~unloaded
    /\ \/ enabled /\ Disable
       \/ ~enabled /\ \E c \in Calls : EnableCalled(c)
    /\ UNCHANGED unloaded

\* command "Start capture"
CommandEnable ==
    /\ ~unloaded
    /\ ~enabled
    /\ \E c \in Calls : EnableCalled(c)

\* command "Stop capture"
CommandDisable ==
    /\ ~unloaded
    /\ enabled
    /\ Disable
    /\ UNCHANGED unloaded

\* the prompt closes with OK: enable() goes on to `await requestMIDIAccess()`
PromptOk(c, k) ==
    /\ enablePc[c] = "prompt"
    /\ currentKey' = k
    /\ notices' = Notice(notices, CaptureKeyNotice(k))
    /\ enablePc' = [enablePc EXCEPT ![c] = "request"]
    /\ UNCHANGED <<enabled, midiAccess, exportType, sepSetting, statusBar,
                   onmidimessage, portOpen, accessResult, unloaded, fmtVars>>

\* the prompt closes with Cancel, or is dismissed: `if (!key) return`
PromptCancel(c) ==
    /\ enablePc[c] = "prompt"
    /\ enablePc' = [enablePc EXCEPT ![c] = "idle"]
    /\ UNCHANGED <<enabled, midiAccess, currentKey, exportType, sepSetting,
                   statusBar, notices, onmidimessage, portOpen,
                   accessResult, unloaded, fmtVars>>

\* requestMIDIAccess() resolves: the rest of the try block. Assigning
\* onmidimessage opens the port.
AccessGranted(c) ==
    /\ enablePc[c] = "request"
    /\ midiAccess' = "access"
    /\ onmidimessage' = [p \in Ports |-> TRUE]
    /\ portOpen' = [p \in Ports |-> TRUE]
    /\ notices' = Notice(notices, ActivatedNotice)
    /\ statusBar' = "Key-aware MIDI Logger is active"
    /\ enabled' = TRUE
    /\ enablePc' = [enablePc EXCEPT ![c] = "idle"]
    /\ accessResult' = "granted"
    /\ UNCHANGED <<currentKey, exportType, sepSetting, unloaded, fmtVars>>

\* variant: capture is marked active before the request is awaited and the
\* catch block does not take it back
AccessDeniedLeavesEnabled(c) ==
    /\ enablePc[c] = "request"
    /\ notices' = Notice(notices, CannotOpenNotice)
    /\ enabled' = TRUE
    /\ enablePc' = [enablePc EXCEPT ![c] = "idle"]
    /\ accessResult' = "denied"
    /\ UNCHANGED <<midiAccess, currentKey, exportType, sepSetting, statusBar,
                   onmidimessage, portOpen, unloaded, fmtVars>>

\* requestMIDIAccess() rejects: the catch block
AccessDenied(c) ==
    /\ enablePc[c] = "request"
    /\ notices' = Notice(notices, CannotOpenNotice)
    /\ enablePc' = [enablePc EXCEPT ![c] = "idle"]
    /\ accessResult' = "denied"
    /\ UNCHANGED <<enabled, midiAccess, currentKey, exportType, sepSetting,
                   statusBar, onmidimessage, portOpen, unloaded, fmtVars>>

\* writeNoteToEditor(note), up to the string handed to the editor
WriteNoteToEditor(note) ==
    LET r == CASE exportType = "raw" ->
                    [NoAbc EXCEPT !.returned = rawFormat(note, sepSetting)]
               [] exportType = "scientific" ->
                    [NoAbc EXCEPT !.returned = scientificFormat(note, sepSetting)]
               [] OTHER -> ABCFormat(note, sepSetting, currentKey)
    IN  /\ Return(exportType, r)
        /\ MIDInote' = note
        /\ separator' = sepSetting
        /\ key' = IF exportType = "abc" THEN currentKey ELSE key

\* input.onmidimessage on a message [status, data1, data2] of port p
MidiMessage(p, status, data1, data2) ==
    /\ onmidimessage[p]
    /\ portOpen[p]
    /\ LET command == status \div 16
           channel == status % 16
       IN  IF command = 9 /\ channel = 0 /\ data2 > 0
           THEN WriteNoteToEditor(data1)
           ELSE UNCHANGED fmtVars
    /\ UNCHANGED <<enabled, midiAccess, currentKey, exportType, sepSetting,
                   statusBar, notices, enablePc, onmidimessage, portOpen,
                   accessResult, unloaded>>

\* the settings tab's "Output format" dropdown
SetExportType(v) ==
    /\ ~unloaded
    /\ exportType' = v
    /\ UNCHANGED <<enabled, midiAccess, currentKey, sepSetting, statusBar,
                   notices, enablePc, onmidimessage, portOpen,
                   accessResult, unloaded, fmtVars>>

\* onunload(); the host removes the ribbon icon, the commands and the
\* settings tab with the plugin
Onunload ==
    /\ ~unloaded
    /\ IF enabled
       THEN Disable
       ELSE UNCHANGED <<enabled, midiAccess, currentKey, exportType, sepSetting,
                        statusBar, notices, enablePc, onmidimessage, portOpen,
                        accessResult, fmtVars>>
    /\ unloaded' = TRUE

InitPluginSpec ==
    /\ InitPlugin
    /\ InitFmt
    /\ MIDInote = 0
    /\ separator = <<>>
    /\ key = <<"C">>

NextPlugin ==
    \/ RibbonClick
    \/ CommandEnable
    \/ CommandDisable
    \/ \E c \in Calls, k \in PromptKeys : PromptOk(c, k)
    \/ \E c \in Calls : PromptCancel(c)
    \/ \E c \in Calls : AccessGranted(c)
    \/ \E c \in Calls : AccessDenied(c)
    \/ \E p \in Ports, st \in StatusBytes, d1 \in DataBytes1, d2 \in DataBytes2 :
          MidiMessage(p, st, d1, d2)
    \/ \E v \in ExportTypes : SetExportType(v)
    \/ Onunload

SpecPlugin == InitPluginSpec /\ [][NextPlugin]_vars

----------------------------------------------------------------------------
(* Properties of the capture life cycle, checked under SpecPlugin *)

\* a step in which the enable() call c, awaiting requestMIDIAccess(), goes on
\* after the promise was rejected
RejectedStep(c) ==
    /\ enablePc[c] = "request"
    /\ enablePc'[c] # "request"
    /\ accessResult' = "denied"

C10_UnloadedStaysDisabled ==
    [][unloaded' =>
          /\ enabled' = FALSE
          /\ unloaded => onmidimessage' = onmidimessage]_vars

====
